---- MODULE Spec2Model ----
(***************************************************************************)
(* Model of the UNESCO World Heritage Sites query service                  *)
(* (addons/unesco/routing/heritage_sites_service.py), of the spreadsheet   *)
(* upload handlers (addons/unesco_world_heritage_sites) and of the         *)
(* application start-up (base/api_init.py, base/utils.py).                 *)
(*                                                                         *)
(* The table sites_xlsx_export is a sequence of rows.  Every request       *)
(* handler is one action: it builds the statement text and the bound       *)
(* parameters exactly as the Python code does, the store evaluates the     *)
(* statement with SQLite's rules (LIKE, NULL, LIMIT/OFFSET, integer        *)
(* division), and the handler shapes the response.  The session opened by  *)
(* get_db is closed by a second action once the response has been sent.    *)
(*                                                                         *)
(* Text is a tuple of one-character strings; an optional value (a SQL      *)
(* NULL, a Python None) is the empty tuple and a present value v is <<v>>. *)
(* dict(row) is modelled as the row-to-dict conversion the handlers rely   *)
(* on (the mapping behaviour of the result row).                           *)
(***************************************************************************)
EXTENDS Integers, Sequences, FiniteSets, TLC

\* ------------------------------------------------------------- bounds ----
\* Largest number of rows of a table.
MaxRows == 3
\* Largest page / per_page value a get_all_sites request carries.
MaxPage == 3
\* Largest number of optional parameters one request supplies (page and
\* per_page together counting as one).
MaxSupplied == 2

\* ---------------------------------------------------- optional values ----
Null == <<>>

Some(v) == <<v>>

\* Python truthiness of an Optional[str]: None and "" are falsy.
TruthyStr(p) == p # <<>> /\ p[1] # <<>>

\* Python truthiness of an Optional[int]: None and 0 are falsy.
TruthyInt(p) == p # <<>> /\ p[1] # 0

\* --------------------------------------------------------------- text ----
\* str.lower() on one character (the letters the model uses).
LowerChar(c) ==
    CASE c = "A" -> "a" [] c = "C" -> "c" [] c = "E" -> "e" [] c = "L" -> "l"
      [] c = "M" -> "m" [] c = "N" -> "n" [] c = "P" -> "p" [] c = "T" -> "t"
      [] c = "U" -> "u" [] c = "Z" -> "z" [] c = "B" -> "b" [] c = "O" -> "o"
      [] c = "F" -> "f" [] c = "X" -> "x" [] c = "S" -> "s"
      [] OTHER -> c

Lower(s) == [i \in 1..Len(s) |-> LowerChar(s[i])]

\* Python whitespace stripped by str.strip().
IsSpace(c) == c = " "

RECURSIVE LStrip(_)
LStrip(s) == IF s # <<>> /\ IsSpace(Head(s)) THEN LStrip(Tail(s)) ELSE s

RECURSIVE RStrip(_)
RStrip(s) ==
    IF s # <<>> /\ IsSpace(s[Len(s)]) THEN RStrip(SubSeq(s, 1, Len(s) - 1)) ELSE s

Strip(s) == RStrip(LStrip(s))

\* str.split(','): always at least one piece.
RECURSIVE SplitFrom(_, _)
SplitFrom(s, cur) ==
    IF s = <<>> THEN <<cur>>
    ELSE IF Head(s) = "," THEN <<cur>> \o SplitFrom(Tail(s), <<>>)
    ELSE SplitFrom(Tail(s), Append(cur, Head(s)))

Split(s) == SplitFrom(s, <<>>)

\* Characters int() accepts as decimal digits.
DecimalChars == {"0", "1", "2", "3", "4", "5", "6", "7", "8", "9"}

\* Characters for which str.isdigit() is true although int() rejects them;
\* "^2" stands for the one character SUPERSCRIPT TWO (U+00B2).
OtherDigitChars == {"^2"}

\* str.isdigit(): non-empty and every character a digit.
IsDigit(s) == s # <<>> /\ \A i \in 1..Len(s) : s[i] \in DecimalChars \cup OtherDigitChars

\* int(s) raises ValueError unless every character is a decimal digit.
IntRaises(s) == s = <<>> \/ \E i \in 1..Len(s) : s[i] \notin DecimalChars

DigitVal(c) ==
    CASE c = "0" -> 0 [] c = "1" -> 1 [] c = "2" -> 2 [] c = "3" -> 3 [] c = "4" -> 4
      [] c = "5" -> 5 [] c = "6" -> 6 [] c = "7" -> 7 [] c = "8" -> 8 [] c = "9" -> 9

RECURSIVE IntOf(_)
IntOf(s) == IF s = <<>> THEN 0 ELSE IntOf(SubSeq(s, 1, Len(s) - 1)) * 10 + DigitVal(s[Len(s)])

DigitChar(d) == <<"0", "1", "2", "3", "4", "5", "6", "7", "8", "9">>[d + 1]

\* str(n) / f"{n}" for an int.
RECURSIVE Str(_)
Str(n) ==
    IF n < 0 THEN <<"-">> \o Str(0 - n)
    ELSE IF n < 10 THEN <<DigitChar(n)>>
    ELSE Str(n \div 10) \o <<DigitChar(n % 10)>>

\* str.endswith(suffix)
EndsWith(s, suffix) ==
    Len(s) >= Len(suffix) /\ SubSeq(s, Len(s) - Len(suffix) + 1, Len(s)) = suffix

\* The model's characters in code point order.
CharOrder ==
    << " ", "%", ",", "-", ".", "0", "1", "2", "3", "4", "5", "6", "7", "8", "9",
       "A", "B", "C", "D", "E", "F", "G", "H", "I", "J", "K", "L", "M", "N", "O", "P", "Q",
       "R", "S", "T", "U", "V", "W", "X", "Y", "Z", "_",
       "a", "b", "c", "d", "e", "f", "g", "h", "i", "j", "k", "l", "m", "n", "o", "p", "q",
       "r", "s", "t", "u", "v", "w", "x", "y", "z", "^2" >>

CodeRank(c) == CHOOSE i \in 1..Len(CharOrder) : CharOrder[i] = c

\* a < b for two strings: Python's str order and SQLite's BINARY collation.
RECURSIVE TextLess(_, _)
TextLess(a, b) ==
    IF b = <<>> THEN FALSE
    ELSE IF a = <<>> THEN TRUE
    ELSE IF Head(a) = Head(b) THEN TextLess(Tail(a), Tail(b))
    ELSE CodeRank(Head(a)) < CodeRank(Head(b))

\* The strings of a finite set in ascending order.
RECURSIVE SortedTexts(_)
SortedTexts(S) ==
    IF S = {} THEN <<>>
    ELSE LET least == CHOOSE m \in S : \A x \in S \ {m} : TextLess(m, x)
         IN  <<least>> \o SortedTexts(S \ {least})

\* SQLite's LIKE: % matches any run, _ any one character, every other
\* character matches itself ignoring ASCII case.
RECURSIVE Like(_, _)
Like(txt, pat) ==
    IF pat = <<>> THEN txt = <<>>
    ELSE IF Head(pat) = "%"
         THEN \E k \in 0..Len(txt) : Like(SubSeq(txt, k + 1, Len(txt)), Tail(pat))
    ELSE /\ txt # <<>>
         /\ (Head(pat) = "_" \/ LowerChar(Head(txt)) = LowerChar(Head(pat)))
         /\ Like(Tail(txt), Tail(pat))

\* column LIKE :param, a NULL column never matching.
SqlLike(col, pat) == col # Null /\ Like(col[1], pat)

\* column = :param, a NULL column never matching.
SqlEq(col, v) == col # Null /\ col[1] = v

\* SQLite integer division truncates toward zero.
SqlDiv(a, b) == IF a >= 0 THEN a \div b ELSE 0 - ((0 - a) \div b)

\* LIMIT :limit OFFSET :skip; a negative LIMIT means no limit and a
\* negative OFFSET means none.
SqlLimitOffset(rows, limit, skip) ==
    LET from == IF skip < 0 THEN 0 ELSE skip
        rest == SubSeq(rows, from + 1, Len(rows))
    IN  IF limit < 0 \/ limit >= Len(rest) THEN rest ELSE SubSeq(rest, 1, limit)

MinOf(S) == CHOOSE m \in S : \A x \in S : m <= x

\* The elements of a finite set of integers in ascending order.
RECURSIVE SortedSeq(_)
SortedSeq(S) == IF S = {} THEN <<>> ELSE <<MinOf(S)>> \o SortedSeq(S \ {MinOf(S)})

\* The rows at the positions S of a sequence, in order.
Pick(rows, S) ==
    [i \in 1..Cardinality(S) |->
        rows[CHOOSE k \in S : Cardinality({j \in S : j <= k}) = i]]

\* -------------------------------------------------------------- table ----
\* The ten criterion flag columns.
CriteriaColumns ==
    { <<"c", "1">>, <<"c", "2">>, <<"c", "3">>, <<"c", "4">>, <<"c", "5">>, <<"c", "6">>,
      <<"n", "7">>, <<"n", "8">>, <<"n", "9">>, <<"n", "1", "0">> }

\* The columns of the summary projection (Site).
SummaryColumns ==
    { "unique_number", "id_no", "rev_bis", "name_en", "name_fr", "short_description_en",
      "short_description_fr", "longitude", "latitude", "category", "category_short",
      "states_name_en", "region_en", "date_inscribed" }

Flags(on) == [col \in CriteriaColumns |-> IF col \in on THEN Some(1) ELSE Some(0)]

\* Rows a table is made of: present and absent coordinates, categories,
\* regions, years, flags, and two revisions sharing one id_no.
SitePool ==
    << [ unique_number |-> Some(1), id_no |-> Some(1), rev_bis |-> Null,
         name_en |-> Some(<<"T", "i", "m">>), name_fr |-> Some(<<"T", "o", "m">>),
         short_description_en |-> Some(<<"m", "u", "d">>), short_description_fr |-> Null,
         justification_en |-> Some(<<"o", "l", "d">>), justification_fr |-> Null,
         longitude |-> Some(3), latitude |-> Some(16),
         category |-> Some(<<"C", "u", "l", "t">>), category_short |-> Some(<<"C">>),
         states_name_en |-> Some(<<"M", "a", "l", "i">>), region_en |-> Some(<<"A", "f", "r">>),
         date_inscribed |-> Some(1988), danger |-> Some(1), transboundary |-> Some(0),
         crit |-> Flags({<<"c", "1">>, <<"c", "6">>}) ],
       [ unique_number |-> Some(2), id_no |-> Some(2), rev_bis |-> Null,
         name_en |-> Some(<<"M", "a", "n", "u">>), name_fr |-> Null,
         short_description_en |-> Some(<<"e", "l", "m">>), short_description_fr |-> Some(<<"p", "u", "m", "a">>),
         justification_en |-> Null, justification_fr |-> Some(<<"e", "a", "u">>),
         longitude |-> Some(0 - 71), latitude |-> Some(0 - 12),
         category |-> Some(<<"N", "a", "t">>), category_short |-> Some(<<"N">>),
         states_name_en |-> Some(<<"P", "e", "r", "u">>), region_en |-> Some(<<"L", "a", "t">>),
         date_inscribed |-> Some(1987), danger |-> Some(0), transboundary |-> Some(0),
         crit |-> Flags({<<"n", "7">>, <<"n", "1", "0">>}) ],
       [ unique_number |-> Some(3), id_no |-> Some(2), rev_bis |-> Some(<<"B", "i", "s">>),
         name_en |-> Some(<<"L", "a", "c">>), name_fr |-> Some(<<"L", "a", "c">>),
         short_description_en |-> Null, short_description_fr |-> Null,
         justification_en |-> Null, justification_fr |-> Null,
         longitude |-> Some(0 - 70), latitude |-> Null,
         category |-> Null, category_short |-> Null,
         states_name_en |-> Some(<<"P", "e", "r", "u">>), region_en |-> Null,
         date_inscribed |-> Null, danger |-> Null, transboundary |-> Some(1),
         crit |-> [col \in CriteriaColumns |-> Null] ],
       [ unique_number |-> Some(4), id_no |-> Some(4), rev_bis |-> Null,
         name_en |-> Some(<<"E", "n", "n">>), name_fr |-> Null,
         short_description_en |-> Some(<<"a", "_", "c">>), short_description_fr |-> Null,
         justification_en |-> Some(<<"a", "r", "t">>), justification_fr |-> Null,
         longitude |-> Some(21), latitude |-> Some(17),
         category |-> Some(<<"M", "i", "x">>), category_short |-> Some(<<"C", "N">>),
         states_name_en |-> Some(<<"C", "h", "a", "d">>), region_en |-> Some(<<"A", "f", "r">>),
         date_inscribed |-> Some(2016), danger |-> Some(0), transboundary |-> Some(1),
         crit |-> Flags({<<"c", "1">>, <<"n", "7">>}) ],
       [ unique_number |-> Some(5), id_no |-> Some(5), rev_bis |-> Null,
         name_en |-> Some(<<"U", "r">>), name_fr |-> Some(<<"O", "u", "r">>),
         short_description_en |-> Some(<<"c", "l", "a", "y">>), short_description_fr |-> Null,
         justification_en |-> Null, justification_fr |-> Null,
         longitude |-> Null, latitude |-> Null,
         category |-> Some(<<"C", "u", "l", "t">>), category_short |-> Some(<<"C">>),
         states_name_en |-> Some(<<"M", "a", "l", "i">>), region_en |-> Some(<<"A", "f", "r">>),
         date_inscribed |-> Some(1979), danger |-> Some(1), transboundary |-> Null,
         crit |-> Flags({<<"c", "1">>, <<"c", "2">>, <<"c", "6">>}) ] >>

\* The tables: every selection of at most MaxRows pool rows, in pool order.
Tables ==
    { Pick(SitePool, S) :
        S \in {T \in SUBSET (1..Len(SitePool)) : Cardinality(T) <= MaxRows} }

\* dict(row) / row._mapping of a summary SELECT.
Summary(row) == [f \in SummaryColumns |-> row[f]]

\* Largest number of rows of a table given to search_sites alone.
MaxSearchRows == 101

\* A table of n rows that alternates two pool rows, numbered from 1.
LongTable(a, b, n) ==
    [i \in 1..n |-> [SitePool[IF i % 2 = 1 THEN a ELSE b] EXCEPT !.unique_number = Some(i)]]

\* The tables search_sites is run on: the small ones, and tables of one row
\* fewer than MaxSearchRows and of MaxSearchRows rows.
SearchTables ==
    Tables \cup { LongTable(a, b, n) : a \in {1, 3}, b \in {2, 4},
                                       n \in {MaxSearchRows - 1, MaxSearchRows} }

\* -------------------------------------------------------------- state ----
VARIABLES
    table,      \* the rows of sites_xlsx_export
    session,    \* "closed" or "open": the session get_db hands to a handler
    op,         \* the handler serving the current request ("none" when idle)
    req,        \* its parameters
    sql,        \* the statement it executed: [text, params], or NoSql
    resp,       \* its response: [status, body]
    app         \* the application create_app is building (NoApp while serving)

vars == <<table, session, op, req, sql, resp, app>>

NoSql == [text |-> <<>>, params |-> <<>>]

NoReq == [none |-> TRUE]

NoResp == [status |-> 0, body |-> <<>>]

\* No application under construction: the service is serving requests.
NoApp == [pc |-> "serving"]

\* A statement part that has no interpolated text.
Part(s) == [sql |-> s, interp |-> <<>>]

\* The page / per_page values of get_all_sites requests, from -1 up.
PageValues == (0 - 1)..MaxPage

Init ==
    /\ table \in Tables
    /\ session = "closed"
    /\ op = "none"
    /\ req = NoReq
    /\ sql = NoSql
    /\ resp = NoResp
    /\ app = NoApp

\* ------------------------------------------------------ get_all_sites ----
SelectSummary == Part("SELECT summary FROM sites_xlsx_export")

LimitOffset == Part("LIMIT :limit OFFSET :skip")

\* Mutant: the offset of the page after the requested one.
SkipOfNextPage(page, per_page) == page * per_page

\* skip = (page - 1) * per_page
SkipOf(page, per_page) == (page - 1) * per_page

\* The rows get_all_sites returns for a table.
AllSitesResult(t, page, per_page) ==
    LET rows == SqlLimitOffset(t, per_page, SkipOf(page, per_page))
    IN  [i \in 1..Len(rows) |-> Summary(rows[i])]

get_all_sites(page, per_page) ==
    /\ session = "closed"
    /\ op = "none"
    /\ session' = "open"
    /\ op' = "get_all_sites"
    /\ req' = [page |-> page, per_page |-> per_page]
    /\ sql' = [text |-> <<SelectSummary, LimitOffset>>,
               params |-> [skip |-> SkipOf(page, per_page), limit |-> per_page]]
    /\ resp' = [status |-> 200, body |-> AllSitesResult(table, page, per_page)]
    /\ UNCHANGED <<table, app>>

\* ---------------------------------------------------- statement store ----
\* The column a criterion part names: the template's letter followed by
\* the interpolated text.
ColumnOf(part) ==
    (IF part.sql = "AND c{} = 1" THEN <<"c">> ELSE <<"n">>) \o part.interp

IsCriterionPart(part) == part.sql \in {"AND c{} = 1", "AND n{} = 1"}

\* The store rejects a statement that names a column the table lacks
\* (sqlite3.OperationalError: no such column).
StatementFails(text) ==
    \E i \in 1..Len(text) : IsCriterionPart(text[i]) /\ ColumnOf(text[i]) \notin CriteriaColumns

\* One part of a WHERE clause evaluated on a row; NULL counts as not true.
PartHolds(row, part, params) ==
    CASE part.sql = "AND states_name_en LIKE :country" ->
             SqlLike(row.states_name_en, params["country"])
      [] part.sql = "AND region_en LIKE :region" ->
             SqlLike(row.region_en, params["region"])
      [] part.sql = "AND category_short LIKE :category" ->
             SqlLike(row.category_short, params["category"])
      [] part.sql = "AND states_name_en = :country" ->
             SqlEq(row.states_name_en, params["country"])
      [] part.sql = "AND region_en = :region" ->
             SqlEq(row.region_en, params["region"])
      [] part.sql = "AND category_short = :category" ->
             SqlEq(row.category_short, params["category"])
      [] part.sql = "AND danger = :danger" ->
             SqlEq(row.danger, params["danger"])
      [] part.sql = "AND transboundary = :transboundary" ->
             SqlEq(row.transboundary, params["transboundary"])
      [] part.sql = "AND date_inscribed >= :year_from" ->
             row.date_inscribed # Null /\ row.date_inscribed[1] >= params["year_from"]
      [] part.sql = "AND date_inscribed <= :year_to" ->
             row.date_inscribed # Null /\ row.date_inscribed[1] <= params["year_to"]
      [] part.sql = "AND (name_en LIKE :search OR name_fr LIKE :search OR short_description_en LIKE :search OR short_description_fr LIKE :search)" ->
             \/ SqlLike(row.name_en, params["search"])
             \/ SqlLike(row.name_fr, params["search"])
             \/ SqlLike(row.short_description_en, params["search"])
             \/ SqlLike(row.short_description_fr, params["search"])
      [] part.sql = "SELECT geo FROM sites_xlsx_export WHERE longitude IS NOT NULL AND latitude IS NOT NULL" ->
             row.longitude # Null /\ row.latitude # Null
      [] part.sql = "SELECT * FROM sites_xlsx_export WHERE id_no = :site_id" ->
             SqlEq(row.id_no, params["site_id"])
      [] part.sql = "SELECT summary FROM sites_xlsx_export WHERE states_name_en = :country ORDER BY name_en" ->
             SqlEq(row.states_name_en, params["country"])
      [] part.sql = "SELECT summary FROM sites_xlsx_export WHERE name_en LIKE :search OR name_fr LIKE :search OR short_description_en LIKE :search OR short_description_fr LIKE :search OR justification_en LIKE :search OR justification_fr LIKE :search OR states_name_en LIKE :search OR region_en LIKE :search" ->
             \/ SqlLike(row.name_en, params["search"])
             \/ SqlLike(row.name_fr, params["search"])
             \/ SqlLike(row.short_description_en, params["search"])
             \/ SqlLike(row.short_description_fr, params["search"])
             \/ SqlLike(row.justification_en, params["search"])
             \/ SqlLike(row.justification_fr, params["search"])
             \/ SqlLike(row.states_name_en, params["search"])
             \/ SqlLike(row.region_en, params["search"])
      [] IsCriterionPart(part) -> SqlEq(row.crit[ColumnOf(part)], 1)
      [] OTHER -> TRUE

HasLimit(text) == \E i \in 1..Len(text) : text[i].sql = "LIMIT :limit OFFSET :skip"

\* The rows a statement selects from a table, in table order.
Execute(t, text, params) ==
    LET hit == Pick(t, {i \in 1..Len(t) :
                         \A j \in 1..Len(text) : PartHolds(t[i], text[j], params)})
    IN  IF HasLimit(text) THEN SqlLimitOffset(hit, params["limit"], params["skip"])
        ELSE hit

NoParams == [k \in {} |-> 0]

\* ------------------------------------------------------- filter_sites ----
SelectSummaryWhere == Part("SELECT summary FROM sites_xlsx_export WHERE 1=1")

\* f"%{value}%"
Wrapped(s) == <<"%">> \o s \o <<"%">>

\* The part one criteria token adds (none when the token is ignored).
\* Reached only for tokens on which int() does not raise.
FilterTokenParts(token) ==
    LET criterion == Lower(Strip(token))
    IN  IF criterion # <<>> /\ Head(criterion) = "c" /\ IsDigit(Tail(criterion))
        THEN (IF IntOf(Tail(criterion)) >= 1 /\ IntOf(Tail(criterion)) <= 6
              THEN <<[sql |-> "AND c{} = 1", interp |-> Str(IntOf(Tail(criterion)))]>>
              ELSE <<>>)
        ELSE IF criterion # <<>> /\ Head(criterion) = "n" /\ IsDigit(Tail(criterion))
        THEN (IF IntOf(Tail(criterion)) >= 7 /\ IntOf(Tail(criterion)) <= 10
              THEN <<[sql |-> "AND n{} = 1", interp |-> Str(IntOf(Tail(criterion)))]>>
              ELSE <<>>)
        ELSE <<>>

\* int(criterion[1:]) raises ValueError for this token.
FilterTokenRaises(token) ==
    LET criterion == Lower(Strip(token))
    IN  /\ criterion # <<>>
        /\ Head(criterion) \in {"c", "n"}
        /\ IsDigit(Tail(criterion))
        /\ IntRaises(Tail(criterion))

RECURSIVE FilterCriteriaParts(_)
FilterCriteriaParts(tokens) ==
    IF tokens = <<>> THEN <<>>
    ELSE FilterTokenParts(Head(tokens)) \o FilterCriteriaParts(Tail(tokens))

\* The handler ends with an unhandled ValueError.
FilterRaises(r) ==
    /\ TruthyStr(r.criteria)
    /\ \E i \in 1..Len(Split(r.criteria[1])) : FilterTokenRaises(Split(r.criteria[1])[i])

\* query_parts, joined in order.
FilterText(r) ==
    <<SelectSummaryWhere>>
    \o (IF TruthyStr(r.country) THEN <<Part("AND states_name_en LIKE :country")>> ELSE <<>>)
    \o (IF TruthyStr(r.region) THEN <<Part("AND region_en LIKE :region")>> ELSE <<>>)
    \o (IF TruthyStr(r.category) THEN <<Part("AND category_short LIKE :category")>> ELSE <<>>)
    \o (IF r.danger # Null THEN <<Part("AND danger = :danger")>> ELSE <<>>)
    \o (IF r.transboundary # Null THEN <<Part("AND transboundary = :transboundary")>> ELSE <<>>)
    \o (IF TruthyInt(r.year_from) THEN <<Part("AND date_inscribed >= :year_from")>> ELSE <<>>)
    \o (IF TruthyInt(r.year_to) THEN <<Part("AND date_inscribed <= :year_to")>> ELSE <<>>)
    \o (IF TruthyStr(r.search) THEN <<Part("AND (name_en LIKE :search OR name_fr LIKE :search OR short_description_en LIKE :search OR short_description_fr LIKE :search)")>> ELSE <<>>)
    \o (IF TruthyStr(r.criteria) THEN FilterCriteriaParts(Split(r.criteria[1])) ELSE <<>>)
    \o <<LimitOffset>>

\* 1 if flag else 0
BoolParam(b) == IF b THEN 1 ELSE 0

\* params
FilterParams(r) ==
    (IF TruthyStr(r.country) THEN "country" :> Wrapped(r.country[1]) ELSE NoParams)
    @@ (IF TruthyStr(r.region) THEN "region" :> Wrapped(r.region[1]) ELSE NoParams)
    @@ (IF TruthyStr(r.category) THEN "category" :> Wrapped(r.category[1]) ELSE NoParams)
    @@ (IF r.danger # Null THEN "danger" :> BoolParam(r.danger[1]) ELSE NoParams)
    @@ (IF r.transboundary # Null THEN "transboundary" :> BoolParam(r.transboundary[1]) ELSE NoParams)
    @@ (IF TruthyInt(r.year_from) THEN "year_from" :> r.year_from[1] ELSE NoParams)
    @@ (IF TruthyInt(r.year_to) THEN "year_to" :> r.year_to[1] ELSE NoParams)
    @@ (IF TruthyStr(r.search) THEN "search" :> Wrapped(r.search[1]) ELSE NoParams)
    @@ ("skip" :> SkipOf(r.page, r.per_page))
    @@ ("limit" :> r.per_page)

\* The response of filter_sites: the selected rows as dicts, or a 500 when
\* the handler raised.
FilterResponse(t, r) ==
    IF FilterRaises(r) \/ StatementFails(FilterText(r))
    THEN [status |-> 500, body |-> <<>>]
    ELSE LET rows == Execute(t, FilterText(r), FilterParams(r))
         IN  [status |-> 200, body |-> [i \in 1..Len(rows) |-> Summary(rows[i])]]

filter_sites(r) ==
    /\ session = "closed"
    /\ op = "none"
    /\ session' = "open"
    /\ op' = "filter_sites"
    /\ req' = r
    /\ sql' = IF FilterRaises(r) THEN NoSql
              ELSE [text |-> FilterText(r), params |-> FilterParams(r)]
    /\ resp' = FilterResponse(table, r)
    /\ UNCHANGED <<table, app>>

\* ---------------------------------------------------- get_site_detail ----
SelectDetail == Part("SELECT * FROM sites_xlsx_export WHERE id_no = :site_id")

\* fetchone(): the first selected row, or None.
FetchOne(rows) == IF rows = <<>> THEN Null ELSE Some(rows[1])

\* Mutant: no not-found check; an empty success when no row came back.
DetailResponseUnchecked(t, site_id) ==
    LET result == FetchOne(Execute(t, <<SelectDetail>>, "site_id" :> site_id))
    IN  [status |-> 200, body |-> IF result = Null THEN [id_no |-> Null] ELSE result[1]]

\* The response of get_site_detail: HTTPException(404) when no row came
\* back, else dict(result) with every column.
DetailResponse(t, site_id) ==
    LET result == FetchOne(Execute(t, <<SelectDetail>>, "site_id" :> site_id))
    IN  IF result = Null
        THEN [status |-> 404, body |-> <<>>]
        ELSE [status |-> 200, body |-> result[1]]

get_site_detail(site_id) ==
    /\ session = "closed"
    /\ op = "none"
    /\ session' = "open"
    /\ op' = "get_site_detail"
    /\ req' = [site_id |-> site_id]
    /\ sql' = [text |-> <<SelectDetail>>, params |-> "site_id" :> site_id]
    /\ resp' = DetailResponse(table, site_id)
    /\ UNCHANGED <<table, app>>

\* ------------------------------------------------ get_site_statistics ----
\* SELECT COUNT(*) FROM sites_xlsx_export WHERE <col> = <v>
CountEq(t, col, v) == Cardinality({i \in 1..Len(t) : SqlEq(t[i][col], v)})

\* SELECT COUNT(*) FROM sites_xlsx_export WHERE c{i} = 1  (n{i} = 1)
CountCriterion(t, col) == Cardinality({i \in 1..Len(t) : SqlEq(t[i].crit[col], 1)})

\* SELECT col, COUNT(*) ... WHERE col IS NOT NULL GROUP BY col, then
\* {row[0]: row[1] for row in result if row[0]}.
\* The keys are column values (<<text>>); None and "" are dropped.
GroupCount(t, col) ==
    LET keys == {t[i][col] : i \in {j \in 1..Len(t) : t[j][col] # Null}}
    IN  [k \in {x \in keys : TruthyStr(x)} |-> CountEq(t, col, k[1])]

\* Mutant: the year divided by ten and not multiplied back.
DecadeOfTenth(year) == SqlDiv(year, 10)

\* ((date_inscribed/10)*10)
DecadeOf(year) == SqlDiv(year, 10) * 10

\* f"{row[0]}s"
DecadeKey(decade) == Str(decade) \o <<"s">>

\* SELECT ((date_inscribed/10)*10) AS decade, COUNT(*) ... WHERE
\* date_inscribed IS NOT NULL GROUP BY decade ORDER BY decade: the result
\* rows <<decade, count>> in ascending decade order.
DecadeRows(t) ==
    LET dated   == {i \in 1..Len(t) : t[i].date_inscribed # Null}
        decades == SortedSeq({DecadeOf(t[i].date_inscribed[1]) : i \in dated})
    IN  [k \in 1..Len(decades) |->
            <<decades[k],
              Cardinality({i \in dated : DecadeOf(t[i].date_inscribed[1]) = decades[k]})>>]

\* The dict built from the decade rows, as its items in insertion order.
SitesByDecade(t) ==
    [k \in 1..Len(DecadeRows(t)) |-> <<DecadeKey(DecadeRows(t)[k][1]), DecadeRows(t)[k][2]>>]

\* Mutant: every row with a danger value counts, 0 included.
SitesInDangerAnyValue(t) == Cardinality({i \in 1..Len(t) : t[i].danger # Null})

\* SELECT COUNT(*) FROM sites_xlsx_export WHERE danger = 1
SitesInDanger(t) == CountEq(t, "danger", 1)

\* SELECT COUNT(*) FROM sites_xlsx_export WHERE transboundary = 1
TransboundarySites(t) == CountEq(t, "transboundary", 1)

\* stats
Statistics(t) ==
    [ total_sites         |-> Len(t),
      sites_by_category   |-> GroupCount(t, "category_short"),
      sites_by_region     |-> GroupCount(t, "region_en"),
      sites_in_danger     |-> SitesInDanger(t),
      transboundary_sites |-> TransboundarySites(t),
      criteria_counts     |-> [col \in CriteriaColumns |-> CountCriterion(t, col)],
      sites_by_decade     |-> SitesByDecade(t) ]

get_site_statistics ==
    /\ session = "closed"
    /\ op = "none"
    /\ session' = "open"
    /\ op' = "get_site_statistics"
    /\ req' = NoReq
    /\ sql' = NoSql
    /\ resp' = [status |-> 200, body |-> Statistics(table)]
    /\ UNCHANGED <<table, app>>

\* --------------------------------------------------- get_geojson_data ----
SelectGeoWhere ==
    Part("SELECT geo FROM sites_xlsx_export WHERE longitude IS NOT NULL AND latitude IS NOT NULL")

\* criteria[0].lower() and criteria[1:] of a non-empty criteria string.
GeoCriteriaType(c) == LowerChar(Head(c))

GeoCriteriaNum(c) == Tail(c)

\* int(criteria_num) raises ValueError.
GeoRaises(r) ==
    /\ TruthyStr(r.criteria)
    /\ GeoCriteriaType(r.criteria[1]) \in {"c", "n"}
    /\ IsDigit(GeoCriteriaNum(r.criteria[1]))
    /\ IntRaises(GeoCriteriaNum(r.criteria[1]))

\* The part the criteria string adds: criteria_num itself is interpolated.
GeoCriteriaParts(c) ==
    IF GeoCriteriaType(c) = "c" /\ IsDigit(GeoCriteriaNum(c))
       /\ 1 <= IntOf(GeoCriteriaNum(c)) /\ IntOf(GeoCriteriaNum(c)) <= 6
    THEN <<[sql |-> "AND c{} = 1", interp |-> GeoCriteriaNum(c)]>>
    ELSE IF GeoCriteriaType(c) = "n" /\ IsDigit(GeoCriteriaNum(c))
            /\ 7 <= IntOf(GeoCriteriaNum(c)) /\ IntOf(GeoCriteriaNum(c)) <= 10
    THEN <<[sql |-> "AND n{} = 1", interp |-> GeoCriteriaNum(c)]>>
    ELSE <<>>

GeoText(r) ==
    <<SelectGeoWhere>>
    \o (IF TruthyStr(r.country) THEN <<Part("AND states_name_en = :country")>> ELSE <<>>)
    \o (IF TruthyStr(r.region) THEN <<Part("AND region_en = :region")>> ELSE <<>>)
    \o (IF TruthyStr(r.category) THEN <<Part("AND category_short = :category")>> ELSE <<>>)
    \o (IF r.danger # Null THEN <<Part("AND danger = :danger")>> ELSE <<>>)
    \o (IF r.transboundary # Null THEN <<Part("AND transboundary = :transboundary")>> ELSE <<>>)
    \o (IF TruthyStr(r.criteria) THEN GeoCriteriaParts(r.criteria[1]) ELSE <<>>)

GeoParams(r) ==
    (IF TruthyStr(r.country) THEN "country" :> r.country[1] ELSE NoParams)
    @@ (IF TruthyStr(r.region) THEN "region" :> r.region[1] ELSE NoParams)
    @@ (IF TruthyStr(r.category) THEN "category" :> r.category[1] ELSE NoParams)
    @@ (IF r.danger # Null THEN "danger" :> BoolParam(r.danger[1]) ELSE NoParams)
    @@ (IF r.transboundary # Null THEN "transboundary" :> BoolParam(r.transboundary[1]) ELSE NoParams)

\* bool(value) of a flag column.
PyBool(x) == x # Null /\ x[1] # 0

\* The feature the loop body computes for one row.
GeoFeature(site) ==
    [ type |-> "Feature",
      geometry |-> [type |-> "Point", coordinates |-> <<site.longitude, site.latitude>>],
      properties |->
        [ id |-> site.id_no, name |-> site.name_en, category |-> site.category_short,
          country |-> site.states_name_en, region |-> site.region_en,
          danger |-> PyBool(site.danger), transboundary |-> PyBool(site.transboundary),
          criteria |-> [col \in CriteriaColumns |-> PyBool(site.crit[col])] ] ]

\* for row in result: feature = {...}  -- the body assigns feature and
\* appends nothing to features.
RECURSIVE GeoLoop(_, _)
GeoLoop(rows, features) ==
    IF rows = <<>> THEN features
    ELSE LET feature == GeoFeature(Head(rows))
         IN  GeoLoop(Tail(rows), features)

GeoResponse(t, r) ==
    IF GeoRaises(r) \/ StatementFails(GeoText(r))
    THEN [status |-> 500, body |-> <<>>]
    ELSE [status |-> 200, body |-> GeoLoop(Execute(t, GeoText(r), GeoParams(r)), <<>>)]

get_geojson_data(r) ==
    /\ session = "closed"
    /\ op = "none"
    /\ session' = "open"
    /\ op' = "get_geojson_data"
    /\ req' = r
    /\ sql' = IF GeoRaises(r) THEN NoSql
              ELSE [text |-> GeoText(r), params |-> GeoParams(r)]
    /\ resp' = GeoResponse(table, r)
    /\ UNCHANGED <<table, app>>

\* ----------------------------------------------------- distinct lists ----
\* SELECT DISTINCT col FROM sites_xlsx_export WHERE col IS NOT NULL ORDER BY
\* col, then [row[0] for row in result if row[0]]: the distinct non-empty
\* values in ascending order.
DistinctList(t, col) ==
    SortedTexts({t[i][col][1] : i \in {k \in 1..Len(t) : t[k][col] # Null}} \ {<<>>})

get_countries ==
    /\ session = "closed"
    /\ op = "none"
    /\ session' = "open"
    /\ op' = "get_countries"
    /\ req' = NoReq
    /\ sql' = [text |-> <<Part("SELECT DISTINCT states_name_en FROM sites_xlsx_export WHERE states_name_en IS NOT NULL ORDER BY states_name_en")>>,
               params |-> NoParams]
    /\ resp' = [status |-> 200, body |-> DistinctList(table, "states_name_en")]
    /\ UNCHANGED <<table, app>>

get_regions ==
    /\ session = "closed"
    /\ op = "none"
    /\ session' = "open"
    /\ op' = "get_regions"
    /\ req' = NoReq
    /\ sql' = [text |-> <<Part("SELECT DISTINCT region_en FROM sites_xlsx_export WHERE region_en IS NOT NULL ORDER BY region_en")>>,
               params |-> NoParams]
    /\ resp' = [status |-> 200, body |-> DistinctList(table, "region_en")]
    /\ UNCHANGED <<table, app>>

get_categories ==
    /\ session = "closed"
    /\ op = "none"
    /\ session' = "open"
    /\ op' = "get_categories"
    /\ req' = NoReq
    /\ sql' = [text |-> <<Part("SELECT DISTINCT category_short FROM sites_xlsx_export WHERE category_short IS NOT NULL ORDER BY category_short")>>,
               params |-> NoParams]
    /\ resp' = [status |-> 200, body |-> DistinctList(table, "category_short")]
    /\ UNCHANGED <<table, app>>

\* ----------------------------------------------- get_sites_by_country ----
SelectByCountry ==
    Part("SELECT summary FROM sites_xlsx_export WHERE states_name_en = :country ORDER BY name_en")

\* ORDER BY name_en: the rows without a name first, then by name; rows of
\* one name in table order.
OrderByName(rows) ==
    LET unnamed == {i \in 1..Len(rows) : rows[i].name_en = Null}
        names   == SortedTexts({rows[i].name_en[1] : i \in (1..Len(rows)) \ unnamed})
        RECURSIVE Named(_)
        Named(k) ==
            IF k > Len(names) THEN <<>>
            ELSE Pick(rows, {i \in 1..Len(rows) : rows[i].name_en = Some(names[k])})
                 \o Named(k + 1)
    IN  Pick(rows, unnamed) \o Named(1)

\* The response of get_sites_by_country: the rows of the country, the
\* name compared with =, as dicts.
SitesByCountryResponse(t, country) ==
    LET rows == OrderByName(Execute(t, <<SelectByCountry>>, "country" :> country))
    IN  [status |-> 200, body |-> [i \in 1..Len(rows) |-> Summary(rows[i])]]

get_sites_by_country(country) ==
    /\ session = "closed"
    /\ op = "none"
    /\ session' = "open"
    /\ op' = "get_sites_by_country"
    /\ req' = [country |-> country]
    /\ sql' = [text |-> <<SelectByCountry>>, params |-> "country" :> country]
    /\ resp' = SitesByCountryResponse(table, country)
    /\ UNCHANGED <<table, app>>

\* ------------------------------------------------------- search_sites ----
SelectSearch ==
    Part("SELECT summary FROM sites_xlsx_export WHERE name_en LIKE :search OR name_fr LIKE :search OR short_description_en LIKE :search OR short_description_fr LIKE :search OR justification_en LIKE :search OR justification_fr LIKE :search OR states_name_en LIKE :search OR region_en LIKE :search")

\* LIMIT 100
SearchLimit == 100

\* The response of search_sites: the first SearchLimit selected rows as
\* dicts.
SearchResponse(t, q) ==
    LET rows == SqlLimitOffset(Execute(t, <<SelectSearch>>, "search" :> Wrapped(q)),
                               SearchLimit, 0)
    IN  [status |-> 200, body |-> [i \in 1..Len(rows) |-> Summary(rows[i])]]

search_sites(q) ==
    /\ session = "closed"
    /\ op = "none"
    /\ session' = "open"
    /\ op' = "search_sites"
    /\ req' = [q |-> q]
    /\ sql' = [text |-> <<SelectSearch, Part("LIMIT 100")>>, params |-> "search" :> Wrapped(q)]
    /\ resp' = SearchResponse(table, q)
    /\ UNCHANGED <<table, app>>

\* ------------------------------------------------ spreadsheet uploads ----
\* The handlers of addons/unesco_world_heritage_sites.  An uploaded file is
\* [filename, frame]: frame is the DataFrame pd.read_excel gives with the
\* engine chosen from the name, or Null when read_excel raises.  A frame is
\* [columns, rows]; a cell is text, or Null for NaN.

\* file.filename.endswith(('.xls', '.xlsx'))
IsExcelName(name) ==
    EndsWith(name, <<".", "x", "l", "s">>) \/ EndsWith(name, <<".", "x", "l", "s", "x">>)

\* engine
EngineOf(name) == IF EndsWith(name, <<".", "x", "l", "s", "x">>) THEN "openpyxl" ELSE "xlrd"

HasColumn(frame, col) == \E i \in 1..Len(frame.columns) : frame.columns[i] = col

\* raise HTTPException(status_code=400, detail="Invalid file type. ...")
InvalidFileType ==
    [type |-> "HTTPException", status_code |-> 400,
     detail |-> "Invalid file type. Please upload an Excel file."]

ReadExcelError == [type |-> "ValueError", status_code |-> 0, detail |-> "read_excel"]

KeyError == [type |-> "KeyError", status_code |-> 0, detail |-> "column"]

NoException == [type |-> "none", status_code |-> 0, detail |-> ""]

\* The exception the common head of the three try blocks raises: the file
\* type check, then read_excel.
ReadRaises(file) ==
    IF ~IsExcelName(file.filename) THEN InvalidFileType
    ELSE IF file.frame = Null THEN ReadExcelError
    ELSE NoException

\* except Exception as e: return {"error": str(e)} -- HTTPException is an
\* Exception, so it is caught too and the dict is returned as a success.
Caught(e) == [status |-> 200, body |-> [error |-> e.detail]]

\* df.columns.tolist()
UploadXlsResponse(file) ==
    IF ReadRaises(file) # NoException THEN Caught(ReadRaises(file))
    ELSE [status |-> 200,
          body |-> [status |-> "File uploaded successfully",
                    columns |-> file.frame[1].columns]]

\* Series.unique(): the values in order of first appearance, NaN included.
RECURSIVE Unique(_, _)
Unique(values, seen) ==
    IF values = <<>> THEN <<>>
    ELSE IF Head(values) \in seen THEN Unique(Tail(values), seen)
    ELSE <<Head(values)>> \o Unique(Tail(values), seen \cup {Head(values)})

ColumnValues(frame, col) == [i \in 1..Len(frame.rows) |-> frame.rows[i][col]]

\* df['states_name_en'].unique().tolist()
GetCountriesUploadResponse(file) ==
    IF ReadRaises(file) # NoException THEN Caught(ReadRaises(file))
    ELSE IF ~HasColumn(file.frame[1], "states_name_en") THEN Caught(KeyError)
    ELSE [status |-> 200,
          body |-> [countries |-> Unique(ColumnValues(file.frame[1], "states_name_en"), {})]]

\* df.groupby('states_name_en')['name_en'].apply(list).reset_index()
\* .to_dict(orient='records'): one record per country in ascending order,
\* rows without a country dropped, the names in row order.
GroupedSites(frame) ==
    LET rows == frame.rows
        keys == SortedTexts({rows[i]["states_name_en"][1] :
                                i \in {k \in 1..Len(rows) : rows[k]["states_name_en"] # Null}})
    IN  [g \in 1..Len(keys) |->
            [ states_name_en |-> keys[g],
              name_en |-> ColumnValues(
                  [rows |-> Pick(rows, {i \in 1..Len(rows) :
                                           rows[i]["states_name_en"] = Some(keys[g])})],
                  "name_en") ]]

GetSitesResponse(file) ==
    IF ReadRaises(file) # NoException THEN Caught(ReadRaises(file))
    ELSE IF ~HasColumn(file.frame[1], "states_name_en") \/ ~HasColumn(file.frame[1], "name_en")
    THEN Caught(KeyError)
    ELSE [status |-> 200, body |-> [grouped_sites |-> GroupedSites(file.frame[1])]]

\* Mutant: a readable sheet is stored, its first row appended to the table.
TableAfterUploadStored(t, file) ==
    IF IsExcelName(file.filename) /\ file.frame # Null /\ Len(t) < MaxRows
    THEN Append(t, SitePool[1])
    ELSE t

\* The table once an upload handler has run: contents and df are locals of
\* the handler and no statement is sent to the store.
TableAfterUpload(t, file) == t

upload_xls(file) ==
    /\ session = "closed"
    /\ op = "none"
    /\ op' = "upload_xls"
    /\ req' = [file |-> file]
    /\ resp' = UploadXlsResponse(file)
    /\ table' = TableAfterUpload(table, file)
    /\ UNCHANGED <<session, sql, app>>

\* get_countries of the upload module (POST /sites/countries/).
get_countries_upload(file) ==
    /\ session = "closed"
    /\ op = "none"
    /\ op' = "get_countries_upload"
    /\ req' = [file |-> file]
    /\ resp' = GetCountriesUploadResponse(file)
    /\ table' = TableAfterUpload(table, file)
    /\ UNCHANGED <<session, sql, app>>

get_sites(file) ==
    /\ session = "closed"
    /\ op = "none"
    /\ op' = "get_sites"
    /\ req' = [file |-> file]
    /\ resp' = GetSitesResponse(file)
    /\ table' = TableAfterUpload(table, file)
    /\ UNCHANGED <<session, sql, app>>

UploadOps == {"upload_xls", "get_countries_upload", "get_sites"}

\* The response of an upload handler has been sent; it held no session.
upload_return ==
    /\ session = "closed"
    /\ op \in UploadOps
    /\ op' = "none"
    /\ req' = NoReq
    /\ resp' = NoResp
    /\ UNCHANGED <<table, session, sql, app>>

\* ----------------------------------------------------------- requests ----
\* Client strings: a plain lower-case fragment, an upper-case one, a LIKE
\* wildcard, the empty string, a full column value.
CountryValues == {Null, Some(<<"m", "a">>), Some(<<"_">>), Some(<<"M", "a", "l", "i">>)}

RegionValues == {Null, Some(<<"A", "F">>), Some(<<"A", "f", "r">>)}

CategoryValues == {Null, Some(<<>>), Some(<<"n">>), Some(<<"C">>)}

SearchValues == {Null, Some(<<"u", "m">>)}

BoolValues == {Null, Some(TRUE), Some(FALSE)}

YearFromValues == {Null, Some(0), Some(1987)}

YearToValues == {Null, Some(0), Some(1988)}

\* criteria strings: valid tokens, a list, malformed and out-of-range
\* tokens, padding and upper case, a leading zero, a non-decimal digit.
CriteriaValues ==
    { Null,
      Some(<<"c", "1">>),
      Some(<<"c", "1", ",", "n", "7">>),
      Some(<<"z", "z", "9">>),
      Some(<<"c", "7">>),
      Some(<<" ", "C", "6">>),
      Some(<<"c", "0", "1">>),
      Some(<<"c", "^2">>),
      Some(<<"n", "1", "0">>) }

\* page / per_page of the filter requests: the defaults, a later page, a
\* page below 1.
FilterPaging == {<<1, 100>>, <<2, 1>>, <<0, 1>>}

OptionalFields ==
    {"country", "region", "category", "danger", "transboundary", "year_from", "year_to",
     "search", "criteria"}

SuppliedFields(r) == {f \in OptionalFields \cap DOMAIN r : r[f] # Null}

FilterRequests ==
    { r \in [ country : CountryValues \ {Some(<<"M", "a", "l", "i">>)},
              region : RegionValues \ {Some(<<"A", "f", "r">>)},
              category : CategoryValues \ {Some(<<"C">>)},
              danger : BoolValues, transboundary : BoolValues \ {Some(FALSE)},
              year_from : YearFromValues, year_to : YearToValues,
              search : SearchValues, criteria : CriteriaValues,
              page : {1, 2, 0}, per_page : {1, 100} ] :
        /\ <<r.page, r.per_page>> \in FilterPaging
        /\ Cardinality(SuppliedFields(r)) + (IF <<r.page, r.per_page>> = <<1, 100>> THEN 0 ELSE 1)
               <= MaxSupplied }

GeoRequests ==
    { r \in [ country : CountryValues \ {Some(<<"_">>)}, region : RegionValues,
              category : CategoryValues \ {Some(<<>>)},
              danger : BoolValues, transboundary : BoolValues \ {Some(FALSE)},
              criteria : CriteriaValues ] :
        Cardinality(SuppliedFields(r)) <= MaxSupplied }

\* id_no values of detail requests: the pool's ids and unused ones.
SiteIds == 0..6

\* country of get_sites_by_country requests: two country names, one in
\* lower case, a name no row has.
CountryNames ==
    { <<"M", "a", "l", "i">>, <<"P", "e", "r", "u">>, <<"m", "a", "l", "i">>, <<"z", "z">> }

\* Uploaded file names: the two accepted suffixes, another type, the suffix
\* in upper case, a name without the dot, the empty name.
UploadNames ==
    { <<"a", ".", "x", "l", "s">>, <<"a", ".", "x", "l", "s", "x">>, <<"a", ".", "c", "s", "v">>,
      <<"a", ".", "X", "L", "S">>, <<"x", "l", "s">>, <<>> }

\* Frames: unreadable bytes, a sheet with both columns, a sheet without
\* the country column, a sheet with a NaN country and unsorted countries.
UploadFrames ==
    { Null,
      Some([ columns |-> <<"name_en", "states_name_en">>,
             rows |-> << [name_en |-> Some(<<"T", "i", "m">>), states_name_en |-> Some(<<"M", "a", "l", "i">>)],
                         [name_en |-> Some(<<"M", "a", "n", "u">>), states_name_en |-> Some(<<"P", "e", "r", "u">>)],
                         [name_en |-> Some(<<"U", "r">>), states_name_en |-> Some(<<"M", "a", "l", "i">>)] >> ]),
      Some([ columns |-> <<"name_en">>,
             rows |-> << [name_en |-> Some(<<"T", "i", "m">>)] >> ]),
      Some([ columns |-> <<"name_en", "states_name_en">>,
             rows |-> << [name_en |-> Some(<<"M", "a", "n", "u">>), states_name_en |-> Some(<<"P", "e", "r", "u">>)],
                         [name_en |-> Some(<<"E", "n", "n">>), states_name_en |-> Some(<<"C", "h", "a", "d">>)],
                         [name_en |-> Some(<<"L", "a", "c">>), states_name_en |-> Null] >> ]) }

UploadFiles == [filename : UploadNames, frame : UploadFrames]

\* q of search requests: the empty string, fragments of names and
\* descriptions, of a justification (en, fr), of a region in another case,
\* a country, the LIKE wildcards, a string no row has.
SearchQueries ==
    { <<>>, <<"u", "m">>, <<"o", "l", "d">>, <<"E", "A", "U">>, <<"A", "F">>,
      <<"P", "e", "r", "u">>, <<"_">>, <<"%">>, <<"z", "z">> }

\* ------------------------------------------------------------- get_db ----
\* finally: db.close() once the response has been produced.
get_db_close ==
    /\ session = "open"
    /\ session' = "closed"
    /\ op' = "none"
    /\ req' = NoReq
    /\ sql' = NoSql
    /\ resp' = NoResp
    /\ UNCHANGED <<table, app>>

Next ==
    \/ \E page \in PageValues, per_page \in PageValues : get_all_sites(page, per_page)
    \/ \E r \in FilterRequests : filter_sites(r)
    \/ \E site_id \in SiteIds : get_site_detail(site_id)
    \/ get_site_statistics
    \/ \E r \in GeoRequests : get_geojson_data(r)
    \/ get_countries
    \/ get_regions
    \/ get_categories
    \/ \E country \in CountryNames : get_sites_by_country(country)
    \/ \E q \in SearchQueries : search_sites(q)
    \/ \E file \in UploadFiles : upload_xls(file)
    \/ \E file \in UploadFiles : get_countries_upload(file)
    \/ \E file \in UploadFiles : get_sites(file)
    \/ upload_return
    \/ get_db_close

Spec == Init /\ [][Next]_vars

\* --------------------------------------------------------- create_app ----
\* The modules os.walk finds under addons/.
UnescoModule == "addons.unesco.routing.heritage_sites_service"

UploadModule == "addons.unesco_world_heritage_sites.routing.heritage_sites_service"

AddonModules == {UnescoModule, UploadModule}

\* One route of the application; api tells an APIRoute from the plain
\* routes FastAPI itself adds.
Route(name, method, path, api) ==
    [name |-> name, method |-> method, path |-> path, api |-> api, operation_id |-> Null]

\* FastAPI(openapi_url="/openapi.json", docs_url="/docs/"): the routes the
\* constructor adds, none of them an APIRoute.
DefaultRoutes ==
    << Route("openapi", "GET", "/openapi.json", FALSE),
       Route("swagger_ui_html", "GET", "/docs/", FALSE),
       Route("swagger_ui_redirect", "GET", "/docs/oauth2-redirect", FALSE),
       Route("redoc_html", "GET", "/redoc", FALSE) >>

\* The router of addons/unesco: its decorated functions in source order,
\* under the prefix /sites.
UnescoRoutes ==
         << Route("heritage_sites_root", "GET", "/sites/", TRUE),
            Route("get_all_sites", "GET", "/sites/all", TRUE),
            Route("filter_sites", "GET", "/sites/filter", TRUE),
            Route("get_site_detail", "GET", "/sites/detail/{site_id}", TRUE),
            Route("get_countries", "GET", "/sites/countries", TRUE),
            Route("get_regions", "GET", "/sites/regions", TRUE),
            Route("get_categories", "GET", "/sites/categories", TRUE),
            Route("get_sites_by_country", "GET", "/sites/sites-by-country/{country}", TRUE),
            Route("get_criteria_info", "GET", "/sites/criteria", TRUE),
            Route("get_site_statistics", "GET", "/sites/stats", TRUE),
            Route("search_sites", "GET", "/sites/search", TRUE),
            Route("get_geojson_data", "GET", "/sites/geo", TRUE) >>

\* The router of addons/unesco_world_heritage_sites, under the same prefix.
UploadRoutes ==
         << Route("heritage_sites_root", "GET", "/sites/", TRUE),
            Route("upload_xls", "POST", "/sites/upload-xls/", TRUE),
            Route("get_countries", "POST", "/sites/countries/", TRUE),
            Route("get_sites", "POST", "/sites/sites/", TRUE) >>

\* module.router
ModuleRoutes(module) == IF module = UnescoModule THEN UnescoRoutes ELSE UploadRoutes

\* The orders in which os.walk may yield the two modules.
WalkOrders == { <<UnescoModule, UploadModule>>, <<UploadModule, UnescoModule>> }

\* create_app is about to run: the walk order and the modules whose import
\* succeeds are given by the installation.
InitApp ==
    /\ table = <<>>
    /\ session = "closed"
    /\ op = "none"
    /\ req = NoReq
    /\ sql = NoSql
    /\ resp = NoResp
    /\ app \in { [ pc |-> "create_app", walk |-> w, importable |-> m, module |-> Null,
                    included |-> {}, routes |-> <<>>, route_names |-> {}, i |-> 0,
                    middleware |-> <<>> ] :
                  w \in WalkOrders, m \in SUBSET AddonModules }

\* app = FastAPI(...)
create_app ==
    /\ app.pc = "create_app"
    /\ app' = [app EXCEPT !.pc = "setup_base_routes", !.routes = DefaultRoutes]
    /\ UNCHANGED <<table, session, op, req, sql, resp>>

\* setup_base_routes(app=app): pass
setup_base_routes ==
    /\ app.pc = "setup_base_routes"
    /\ app' = [app EXCEPT !.pc = "register_routes"]
    /\ UNCHANGED <<table, session, op, req, sql, resp>>

\* include_router_from_module, first half: importlib.import_module gives
\* the module, or raises and the except clauses log the failure.
import_module ==
    /\ app.pc = "register_routes"
    /\ app.walk # <<>>
    /\ app.module = Null
    /\ app' = IF Head(app.walk) \in app.importable
              THEN [app EXCEPT !.module = Some(Head(app.walk))]
              ELSE [app EXCEPT !.walk = Tail(app.walk)]
    /\ UNCHANGED <<table, session, op, req, sql, resp>>

\* include_router_from_module, second half: the module has a router and
\* app.include_router adds its routes.
include_router_from_module ==
    /\ app.pc = "register_routes"
    /\ app.module # Null
    /\ app' = [app EXCEPT !.walk = Tail(app.walk),
                          !.module = Null,
                          !.included = app.included \cup {app.module[1]},
                          !.routes = app.routes \o ModuleRoutes(app.module[1])]
    /\ UNCHANGED <<table, session, op, req, sql, resp>>

\* register_routes returns; use_route_names_as_operation_ids starts with
\* route_names = set().
register_routes_return ==
    /\ app.pc = "register_routes"
    /\ app.walk = <<>>
    /\ app' = [app EXCEPT !.pc = "use_route_names_as_operation_ids", !.i = 1,
                          !.route_names = {}]
    /\ UNCHANGED <<table, session, op, req, sql, resp>>

\* One turn of the loop over app.routes.
OperationIdStep(a) ==
    LET route == a.routes[a.i]
    IN  IF route.api
        THEN IF route.name \in a.route_names
             THEN [a EXCEPT !.pc = "raised"]
             ELSE [a EXCEPT !.routes[a.i].operation_id = Some(route.name),
                            !.route_names = a.route_names \cup {route.name},
                            !.i = a.i + 1]
        ELSE [a EXCEPT !.i = a.i + 1]

use_route_names_as_operation_ids ==
    /\ app.pc = "use_route_names_as_operation_ids"
    /\ app.i <= Len(app.routes)
    /\ app' = OperationIdStep(app)
    /\ UNCHANGED <<table, session, op, req, sql, resp>>

\* The loop is over: setup_middleware adds the CORS middleware.
setup_middleware ==
    /\ app.pc = "use_route_names_as_operation_ids"
    /\ app.i > Len(app.routes)
    /\ app' = [app EXCEPT !.pc = "return", !.middleware = <<"CORSMiddleware">>]
    /\ UNCHANGED <<table, session, op, req, sql, resp>>

\* return app
create_app_return ==
    /\ app.pc = "return"
    /\ app' = [app EXCEPT !.pc = "returned"]
    /\ UNCHANGED <<table, session, op, req, sql, resp>>

NextApp ==
    \/ create_app
    \/ setup_base_routes
    \/ import_module
    \/ include_router_from_module
    \/ register_routes_return
    \/ use_route_names_as_operation_ids
    \/ setup_middleware
    \/ create_app_return

SpecApp == InitApp /\ [][NextApp]_vars

\* search_sites alone, on tables that reach past its LIMIT.
InitSearch ==
    /\ table \in SearchTables
    /\ session = "closed"
    /\ op = "none"
    /\ req = NoReq
    /\ sql = NoSql
    /\ resp = NoResp
    /\ app = NoApp

NextSearch ==
    \/ \E q \in SearchQueries : search_sites(q)
    \/ get_db_close

SpecSearch == InitSearch /\ [][NextSearch]_vars

\* ============================================================ claims ====
\* Case-insensitive substring test of the filter contract.
Contains(txt, needle) ==
    \E k \in 1..(Len(txt) - Len(needle) + 1) :
        Lower(SubSeq(txt, k, k + Len(needle) - 1)) = Lower(needle)

ColumnContains(col, needle) == col # Null /\ Contains(col[1], needle)

\* The criterion columns a criteria string names: its comma-separated
\* tokens that are, padding and case aside, one of c1..c6, n7..n10.
NamedColumns(criteria) ==
    IF criteria = Null THEN {}
    ELSE {Lower(Strip(Split(criteria[1])[i])) : i \in 1..Len(Split(criteria[1]))}
         \cap CriteriaColumns

Supplied(r, f) == f \in DOMAIN r /\ r[f] # Null

\* A row satisfies every predicate a request supplies (section 4.1).
Satisfies(row, r) ==
    /\ Supplied(r, "country") => ColumnContains(row.states_name_en, r.country[1])
    /\ Supplied(r, "region") => ColumnContains(row.region_en, r.region[1])
    /\ Supplied(r, "category") => ColumnContains(row.category_short, r.category[1])
    /\ Supplied(r, "danger") => row.danger = Some(BoolParam(r.danger[1]))
    /\ Supplied(r, "transboundary") => row.transboundary = Some(BoolParam(r.transboundary[1]))
    /\ Supplied(r, "year_from") =>
           (row.date_inscribed # Null /\ row.date_inscribed[1] >= r.year_from[1])
    /\ Supplied(r, "year_to") =>
           (row.date_inscribed # Null /\ row.date_inscribed[1] <= r.year_to[1])
    /\ Supplied(r, "search") =>
           \/ ColumnContains(row.name_en, r.search[1])
           \/ ColumnContains(row.name_fr, r.search[1])
           \/ ColumnContains(row.short_description_en, r.search[1])
           \/ ColumnContains(row.short_description_fr, r.search[1])
    /\ Supplied(r, "criteria") =>
           \A col \in NamedColumns(r.criteria) : row.crit[col] = Some(1)

\* The unfiltered listing of a table.
Listing(t) == [i \in 1..Len(t) |-> Summary(t[i])]

\* C1: every record filter_sites returns is a record of the unfiltered
\* listing whose row satisfies every predicate the request supplied
\* (criteria ANDed, the search fields ORed, the year bounds inclusive).
C1_FilterNoFalsePositives ==
    (op = "filter_sites" /\ req.page >= 1 /\ req.per_page >= 1 /\ resp.status = 200) =>
        \A i \in 1..Len(resp.body) :
            \E j \in 1..Len(table) :
                resp.body[i] = Summary(table[j]) /\ Satisfies(table[j], req)

\* ------------------------------------------------------------------ C2 --
RECURSIVE PagesUpTo(_, _, _)
PagesUpTo(t, k, per_page) ==
    IF k <= 0 THEN <<>>
    ELSE PagesUpTo(t, k - 1, per_page) \o AllSitesResult(t, k, per_page)

Prefix(s, n) == SubSeq(s, 1, IF n < Len(s) THEN n ELSE Len(s))

\* C2: for page >= 1 and per_page >= 1, get_all_sites returns at most
\* per_page records, the i-th being record (page-1)*per_page + i of the
\* unfiltered listing (as many as the listing has from there), and pages
\* 1..page concatenated are the first page*per_page records of the listing.
C2_Pagination ==
    (op = "get_all_sites" /\ req.page >= 1 /\ req.per_page >= 1) =>
        /\ resp.status = 200
        /\ Len(resp.body) <= req.per_page
        /\ \A i \in 1..req.per_page :
               LET at == (req.page - 1) * req.per_page + i
               IN  IF at <= Len(table)
                   THEN i <= Len(resp.body) /\ resp.body[i] = Listing(table)[at]
                   ELSE i > Len(resp.body)
        /\ PagesUpTo(table, req.page - 1, req.per_page) \o resp.body
               = Prefix(Listing(table), req.page * req.per_page)

\* A later page that is full and is not the last one.
C2_Witness ==
    /\ op = "get_all_sites"
    /\ req.page >= 2
    /\ req.per_page >= 1
    /\ Len(resp.body) = req.per_page
    /\ Len(table) > req.page * req.per_page

\* ------------------------------------------------------------------ C3 --
\* C3: whatever page and per_page get_all_sites or filter_sites receives,
\* the request is rejected or normalised, so the OFFSET bound into the
\* statement it executes is never negative.
C3_OffsetNeverNegative ==
    (op \in {"get_all_sites", "filter_sites"} /\ sql # NoSql) =>
        sql.params["skip"] >= 0

\* ------------------------------------------------------------------ C4 --
\* C4: get_site_detail answers 200 with a record whose id_no is site_id
\* when some row has that id_no, and 404 when none has.
C4_DetailOrNotFound ==
    op = "get_site_detail" =>
        IF \E j \in 1..Len(table) : table[j].id_no = Some(req.site_id)
        THEN resp.status = 200 /\ resp.body.id_no = Some(req.site_id)
        ELSE resp.status = 404

\* A lookup of an id_no that two rows of the table share.
C4_Witness ==
    /\ op = "get_site_detail"
    /\ resp.status = 200
    /\ Cardinality({j \in 1..Len(table) : table[j].id_no = Some(req.site_id)}) = 2

\* A lookup of an id_no no row of a non-empty table has.
C4_WitnessNotFound ==
    /\ op = "get_site_detail"
    /\ resp.status = 404
    /\ Len(table) > 0

\* ------------------------------------------------------------------ C5 --
\* C5: filter_sites never fails on a criteria string; every record it
\* returns has flag 1 in the column of each token that is one of c1..c6,
\* n7..n10; and a criteria string without such a token gives the result
\* of the same request without criteria.
C5_CriteriaTokens ==
    (op = "filter_sites" /\ req.page >= 1 /\ req.per_page >= 1) =>
        /\ resp.status = 200
        /\ \A i \in 1..Len(resp.body) :
               \E j \in 1..Len(table) :
                   /\ resp.body[i] = Summary(table[j])
                   /\ \A col \in NamedColumns(req.criteria) : table[j].crit[col] = Some(1)
        /\ NamedColumns(req.criteria) = {} =>
               resp.body = FilterResponse(table, [req EXCEPT !.criteria = Null]).body

\* ------------------------------------------------------------------ C6 --
\* The rows with both coordinates that satisfy the request's filters.
GeoSites(t, r) ==
    {j \in 1..Len(t) : t[j].longitude # Null /\ t[j].latitude # Null /\ Satisfies(t[j], r)}

\* C6: get_geojson_data returns one Point feature for each site that has
\* both coordinates and satisfies the filters, and no other feature.
C6_GeoOneFeaturePerSite ==
    (op = "get_geojson_data" /\ resp.status = 200) =>
        /\ Len(resp.body) = Cardinality(GeoSites(table, req))
        /\ \A j \in GeoSites(table, req) :
               \E i \in 1..Len(resp.body) :
                   /\ resp.body[i].geometry.type = "Point"
                   /\ resp.body[i].geometry.coordinates
                          = <<table[j].longitude, table[j].latitude>>
                   /\ resp.body[i].properties.id = table[j].id_no
        /\ \A i \in 1..Len(resp.body) :
               /\ resp.body[i].geometry.coordinates[1] # Null
               /\ resp.body[i].geometry.coordinates[2] # Null

\* ------------------------------------------------------------------ C7 --
IdsOf(rows) == {rows[i].id_no : i \in 1..Len(rows)}

\* The filter_sites request with the same filters as a geo request, on
\* one page that holds the whole table.
AsFilterRequest(r) ==
    [ country |-> r.country, region |-> r.region, category |-> r.category,
      danger |-> r.danger, transboundary |-> r.transboundary, criteria |-> r.criteria,
      year_from |-> Null, year_to |-> Null, search |-> Null, page |-> 1, per_page |-> 100 ]

\* The rows the filter statement of a request selects that have both
\* coordinates.
FilterRowsWithCoordinates(t, r) ==
    LET rows == Execute(t, FilterText(r), FilterParams(r))
    IN  Pick(rows, {i \in 1..Len(rows) : rows[i].longitude # Null /\ rows[i].latitude # Null})

\* A criteria value that is absent or holds one token.
SingleToken(criteria) == criteria = Null \/ Len(Split(criteria[1])) = 1

\* C7: whenever get_geojson_data executes its statement for a request with
\* at most one criteria token, the statement selects the ids the filter
\* statement selects for the same country, region, category, danger,
\* transboundary and criteria among the sites with both coordinates (the
\* text filters matching by case-insensitive substring).
C7_GeoSameContract ==
    (op = "get_geojson_data" /\ SingleToken(req.criteria) /\ resp.status = 200) =>
        /\ ~FilterRaises(AsFilterRequest(req))
        /\ IdsOf(Execute(table, sql.text, sql.params))
               = IdsOf(FilterRowsWithCoordinates(table, AsFilterRequest(req)))

\* ------------------------------------------------------------------ C8 --
\* The parameters a request supplies with a value: present, and neither
\* the empty string nor 0.
SuppliedSet(r) ==
    {f \in OptionalFields \cap DOMAIN r :
        /\ r[f] # Null
        /\ f \in {"country", "region", "category", "search", "criteria"} => r[f][1] # <<>>
        /\ f \in {"year_from", "year_to"} => r[f][1] # 0}

\* The criterion columns a built statement names.
StatementColumns(text) ==
    {ColumnOf(text[i]) : i \in {k \in 1..Len(text) : IsCriterionPart(text[k])}}

\* The statement text a handler builds for a request (none when it raises).
TextOf(handler, r) ==
    IF handler = "filter_sites"
    THEN (IF FilterRaises(r) THEN <<>> ELSE FilterText(r))
    ELSE (IF GeoRaises(r) THEN <<>> ELSE GeoText(r))

RequestsOf(handler) == IF handler = "filter_sites" THEN FilterRequests ELSE GeoRequests

\* The values requests give a parameter.
ValuesOf(f) ==
    CASE f = "country" -> CountryValues
      [] f = "region" -> RegionValues
      [] f = "category" -> CategoryValues
      [] f = "search" -> SearchValues
      [] f = "criteria" -> CriteriaValues
      [] f = "year_from" -> YearFromValues
      [] f = "year_to" -> YearToValues
      [] OTHER -> BoolValues

\* C8: in the statement filter_sites or get_geojson_data builds, the text
\* interpolated into a criterion condition always forms one of the ten
\* column names, and a request of the same handler that differs only in
\* the value of a supplied parameter, and names the same criterion
\* columns, builds the same statement text (so, step by step, do any two
\* requests that supply the same parameters and name the same columns).
C8_QueryStructureFixed ==
    (op \in {"filter_sites", "get_geojson_data"} /\ sql # NoSql) =>
        /\ StatementColumns(sql.text) \subseteq CriteriaColumns
        /\ \A f \in SuppliedSet(req) :
               \A v \in ValuesOf(f) :
                   LET r == [req EXCEPT ![f] = v]
                   IN  ( /\ r \in RequestsOf(op)
                         /\ SuppliedSet(r) = SuppliedSet(req)
                         /\ TextOf(op, r) # <<>>
                         /\ StatementColumns(TextOf(op, r)) = StatementColumns(sql.text) )
                       => TextOf(op, r) = sql.text

\* ------------------------------------------------------------------ C9 --
RECURSIVE SumOver(_, _)
SumOver(f, keys) ==
    IF keys = {} THEN 0
    ELSE LET k == CHOOSE x \in keys : TRUE
         IN  f[k] + SumOver(f, keys \ {k})

\* C9: in the statistics the category counts sum to at most total_sites,
\* sites_in_danger and transboundary_sites are the numbers of rows with
\* danger = 1 and transboundary = 1, every count is a natural number and
\* no grouped mapping has a bucket for a null key.
C9_StatisticsConsistent ==
    op = "get_site_statistics" =>
        LET stats == resp.body
        IN  /\ stats.total_sites \in Nat
            /\ SumOver(stats.sites_by_category, DOMAIN stats.sites_by_category)
                   <= stats.total_sites
            /\ stats.sites_in_danger
                   = Cardinality({j \in 1..Len(table) : table[j].danger = Some(1)})
            /\ stats.transboundary_sites
                   = Cardinality({j \in 1..Len(table) : table[j].transboundary = Some(1)})
            /\ \A k \in DOMAIN stats.sites_by_category : stats.sites_by_category[k] \in Nat
            /\ \A k \in DOMAIN stats.sites_by_region : stats.sites_by_region[k] \in Nat
            /\ \A k \in DOMAIN stats.criteria_counts : stats.criteria_counts[k] \in Nat
            /\ \A i \in 1..Len(stats.sites_by_decade) : stats.sites_by_decade[i][2] \in Nat
            /\ Null \notin DOMAIN stats.sites_by_category
            /\ Null \notin DOMAIN stats.sites_by_region

\* Statistics of a table with a row without category, a row in danger, a
\* row whose danger is 0 and a transboundary row.
C9_Witness ==
    /\ op = "get_site_statistics"
    /\ \E j \in 1..Len(table) : table[j].category_short = Null
    /\ \E j \in 1..Len(table) : table[j].danger = Some(0)
    /\ resp.body.sites_in_danger >= 1
    /\ resp.body.transboundary_sites >= 1
    /\ SumOver(resp.body.sites_by_category, DOMAIN resp.body.sites_by_category)
           < resp.body.total_sites

\* ----------------------------------------------------------------- C10 --
\* The years of the rows that have one.
YearsOf(t) == {t[j].date_inscribed[1] : j \in {i \in 1..Len(t) : t[i].date_inscribed # Null}}

\* floor(year / 10) * 10
FloorDecade(year) == (year \div 10) * 10

\* The decade a key such as "1980s" names.
KeyDecade(key) == IntOf(SubSeq(key, 1, Len(key) - 1))

\* C10: sites_by_decade has, in ascending decade order, one entry for each
\* decade floor(date_inscribed / 10) * 10 of a row with a year, keyed by
\* the decade's decimal digits followed by "s" and counting the rows of
\* that decade, so the counts sum to the number of rows with a year.
C10_SitesByDecade ==
    op = "get_site_statistics" =>
        LET items == resp.body.sites_by_decade
            rowsIn(d) == {j \in 1..Len(table) :
                             /\ table[j].date_inscribed # Null
                             /\ FloorDecade(table[j].date_inscribed[1]) = d}
        IN  /\ \A i \in 1..Len(items) :
                   /\ Len(items[i][1]) >= 2
                   /\ items[i][1][Len(items[i][1])] = "s"
                   /\ \A k \in 1..(Len(items[i][1]) - 1) : items[i][1][k] \in DecimalChars
                   /\ items[i][1][1] = "0" => Len(items[i][1]) = 2
                   /\ KeyDecade(items[i][1]) \in {FloorDecade(y) : y \in YearsOf(table)}
                   /\ items[i][2] = Cardinality(rowsIn(KeyDecade(items[i][1])))
            /\ \A y \in YearsOf(table) :
                   \E i \in 1..Len(items) : KeyDecade(items[i][1]) = FloorDecade(y)
            /\ \A i \in 1..(Len(items) - 1) :
                   KeyDecade(items[i][1]) < KeyDecade(items[i + 1][1])
            /\ SumOver([i \in 1..Len(items) |-> items[i][2]], 1..Len(items))
                   = Cardinality({j \in 1..Len(table) : table[j].date_inscribed # Null})

\* Statistics of a table whose later decade comes first, with a row
\* without a year.
C10_Witness ==
    /\ op = "get_site_statistics"
    /\ resp.body.sites_by_decade
           = << <<<<"1", "9", "7", "0", "s">>, 1>>, <<<<"2", "0", "1", "0", "s">>, 1>> >>
    /\ table[1].date_inscribed = Null
    /\ table[2].date_inscribed = Some(2016)
    /\ table[3].date_inscribed = Some(1979)

\* ----------------------------------------------------------------- C11 --
\* The eight fields search_sites looks in.
SearchFields ==
    {"name_en", "name_fr", "short_description_en", "short_description_fr",
     "justification_en", "justification_fr", "states_name_en", "region_en"}

\* The rows that contain q in at least one of the eight fields.
MatchingRows(t, q) ==
    {j \in 1..Len(t) : \E f \in SearchFields : ColumnContains(t[j][f], q)}

\* The search returns at most 100 records, each a record of the table.
C11_SearchCapped ==
    op = "search_sites" =>
        /\ resp.status = 200
        /\ Len(resp.body) <= 100
        /\ \A i \in 1..Len(resp.body) : \E j \in 1..Len(table) : resp.body[i] = Summary(table[j])

\* When at most 100 rows contain q, each of them is returned.
C11_SearchComplete ==
    (op = "search_sites" /\ Cardinality(MatchingRows(table, req.q)) <= 100) =>
        \A j \in MatchingRows(table, req.q) :
            \E i \in 1..Len(resp.body) : resp.body[i] = Summary(table[j])

\* C11: search_sites(q) returns at most 100 records, every record returned
\* contains q as a substring of at least one of the eight fields name_en,
\* name_fr, short_description_en, short_description_fr, justification_en,
\* justification_fr, states_name_en, region_en, and when at most 100 rows
\* match, every matching row is returned.
C11_SearchSites ==
    /\ C11_SearchCapped
    /\ C11_SearchComplete
    /\ op = "search_sites" =>
           \A i \in 1..Len(resp.body) :
               \E j \in MatchingRows(table, req.q) : resp.body[i] = Summary(table[j])

\* A search that met more than 100 matching rows and returned 100.
C11_WitnessCapped ==
    /\ op = "search_sites"
    /\ Cardinality(MatchingRows(table, req.q)) > 100
    /\ Len(resp.body) = 100

\* ----------------------------------------------------------------- C12 --
\* C12: an upload request (upload_xls, get_countries, get_sites of the
\* upload module) whose filename ends in neither .xls nor .xlsx is answered
\* with status 400, not with a success status carrying an error body.
C12_BadFileTypeIs400 ==
    (op \in UploadOps /\ ~IsExcelName(req.file.filename)) =>
        /\ resp.status = 400
        /\ "error" \notin DOMAIN resp.body

\* ----------------------------------------------------------------- C13 --
\* The result an operation computes from its parameters and a table.
ResultOf(o, r, t) ==
    CASE o = "get_all_sites" -> [status |-> 200, body |-> AllSitesResult(t, r.page, r.per_page)]
      [] o = "filter_sites" -> FilterResponse(t, r)
      [] o = "get_site_detail" -> DetailResponse(t, r.site_id)
      [] o = "get_countries" -> [status |-> 200, body |-> DistinctList(t, "states_name_en")]
      [] o = "get_regions" -> [status |-> 200, body |-> DistinctList(t, "region_en")]
      [] o = "get_categories" -> [status |-> 200, body |-> DistinctList(t, "category_short")]
      [] o = "get_sites_by_country" -> SitesByCountryResponse(t, r.country)
      [] o = "get_site_statistics" -> [status |-> 200, body |-> Statistics(t)]
      [] o = "search_sites" -> SearchResponse(t, r.q)
      [] o = "get_geojson_data" -> GeoResponse(t, r)
      [] o = "upload_xls" -> UploadXlsResponse(r.file)
      [] o = "get_countries_upload" -> GetCountriesUploadResponse(r.file)
      [] o = "get_sites" -> GetSitesResponse(r.file)
      [] OTHER -> NoResp

C13_WitnessFailed ==
    /\ op \in {"filter_sites", "get_geojson_data"}
    /\ resp.status = 500
    /\ session = "open"
    /\ Len(table) > 0

\* ----------------------------------------------------------------- C14 --
\* The positions of the API routes among the first n routes.
ApiRoutes(a, n) == {k \in 1..n : k <= Len(a.routes) /\ a.routes[k].api}

\* No two API routes among the first n share a name.
UniqueNames(a, n) ==
    \A j, k \in ApiRoutes(a, n) : a.routes[j].name = a.routes[k].name => j = k

\* The returned app: every API route's operation id is its name and no
\* two API routes share a name.
C14_ReturnedAppNamed ==
    app.pc = "returned" =>
        /\ \A k \in ApiRoutes(app, Len(app.routes)) :
               app.routes[k].operation_id = Some(app.routes[k].name)
        /\ UniqueNames(app, Len(app.routes))

\* The exception is raised at the first route whose name was already seen.
C14_RaisesAtFirstDuplicate ==
    /\ app.pc = "raised" =>
           /\ app.routes[app.i].api
           /\ \E k \in ApiRoutes(app, app.i - 1) : app.routes[k].name = app.routes[app.i].name
           /\ UniqueNames(app, app.i - 1)
    /\ app.pc \in {"use_route_names_as_operation_ids", "returned"} =>
           UniqueNames(app, app.i - 1)

\* C14: create_app, once the routers of both heritage_sites_service modules
\* are registered, completes and returns an app in which every API route's
\* operation id equals its function name and no two API routes share a
\* name; use_route_names_as_operation_ids raises as soon as it meets a
\* route whose name was already seen.
C14_CreateApp ==
    app.pc # "serving" =>
        /\ app.included = AddonModules => app.pc # "raised"
        /\ C14_ReturnedAppNamed
        /\ C14_RaisesAtFirstDuplicate

\* create_app has returned an app that holds the routes of a module.
C14_WitnessReturned ==
    /\ app.pc = "returned"
    /\ app.included # {}
    /\ app.middleware # <<>>

====
